---- MODULE Spec2Model ----
(***************************************************************************)
(* Model of gnumeric/expression_evaluation.py: the bottom-up evaluation of *)
(* a parsed spreadsheet formula by ExpressionEvaluator (a lark Transformer *)
(* that calls one rule per parse-tree node, children first, left to right) *)
(* and the conversion of raised faults by evaluate().                      *)
(*                                                                         *)
(* Text is a sequence of one-character strings.  A Python value is a record*)
(* [t, n, d, s]: t is the Python type, n/d the number (d = 1 for int and   *)
(* bool, a reduced fraction for float), s the text of a str.               *)
(***************************************************************************)
EXTENDS Integers, Sequences, FiniteSets, TLC

\* ------------------------------------------------------------------ bounds
\* number of parse-tree nodes one evaluation visits
MaxNodes == 3
\* number of evaluated children waiting for their parent rule
MaxStack == 2
\* number of arguments of a function call
MaxArgs == 2
\* magnitude of the operands on which arithmetic is computed exactly
MaxNum == 4
\* largest denominator of a float the model represents
MaxDen == 4

\* ------------------------------------------------------- characters, text
\* printable ASCII, code points 32..126 (code point 96 is spelled out)
ASCII ==
  << " ", "!", "\"", "#", "$", "%", "&", "'", "(", ")", "*", "+", ",", "-",
     ".", "/", "0", "1", "2", "3", "4", "5", "6", "7", "8", "9", ":", ";",
     "<", "=", ">", "?", "@", "A", "B", "C", "D", "E", "F", "G", "H", "I",
     "J", "K", "L", "M", "N", "O", "P", "Q", "R", "S", "T", "U", "V", "W",
     "X", "Y", "Z", "[", "\\", "]", "^", "_", "grave", "a", "b", "c", "d", "e",
     "f", "g", "h", "i", "j", "k", "l", "m", "n", "o", "p", "q", "r", "s",
     "t", "u", "v", "w", "x", "y", "z", "{", "|", "}", "~" >>

\* the code point of every character of ASCII
CodePoint ==
  [c \in {ASCII[i] : i \in 1..Len(ASCII)} |->
     31 + (CHOOSE i \in 1..Len(ASCII) : ASCII[i] = c)]

\* ord(c)
Ord(c) == CodePoint[c]

\* chr(k)
Chr(k) == ASCII[k - 31]

IsUpper(c) == Ord(c) >= 65 /\ Ord(c) <= 90

IsLetter(c) == IsUpper(c) \/ (Ord(c) >= 97 /\ Ord(c) <= 122)

IsDigit(c) == Ord(c) >= 48 /\ Ord(c) <= 57

\* str.lower() on one character
LowerChar(c) == IF IsUpper(c) THEN Chr(Ord(c) + 32) ELSE c

\* str.lower()
Lower(s) == [i \in 1..Len(s) |-> LowerChar(s[i])]

\* Python's str < str: lexicographic on code points
RECURSIVE StrLess(_, _)
StrLess(a, b) ==
  IF b = << >> THEN FALSE
  ELSE IF a = << >> THEN TRUE
  ELSE IF Ord(Head(a)) < Ord(Head(b)) THEN TRUE
  ELSE IF Ord(Head(a)) > Ord(Head(b)) THEN FALSE
  ELSE StrLess(Tail(a), Tail(b))

\* s.startswith(p)
StartsWith(s, p) == Len(s) >= Len(p) /\ SubSeq(s, 1, Len(p)) = p

\* s.endswith(p)
EndsWith(s, p) ==
  Len(s) >= Len(p) /\ SubSeq(s, Len(s) - Len(p) + 1, Len(s)) = p

\* ---------------------------------------------------------------- numbers
Abs(x) == IF x < 0 THEN 0 - x ELSE x

RECURSIVE Gcd(_, _)
Gcd(a, b) == IF b = 0 THEN a ELSE Gcd(b, a % b)

RECURSIVE IntPow(_, _)
IntPow(a, k) == IF k = 0 THEN 1 ELSE a * IntPow(a, k - 1)

IsPow2(d) == \E k \in 0..10 : IntPow(2, k) = d

\* ----------------------------------------------------------------- values
IntV(k) == [t |-> "int", n |-> k, d |-> 1, s |-> << >>]

\* the float n/d, reduced
FloatV(n, d) ==
  LET g == Gcd(Abs(n), Abs(d))
      sg == IF d < 0 THEN 0 - 1 ELSE 1
  IN [t |-> "float", n |-> (sg * n) \div g, d |-> (sg * d) \div g, s |-> << >>]

StrV(s) == [t |-> "str", n |-> 0, d |-> 1, s |-> s]

BoolV(b) == [t |-> "bool", n |-> (IF b THEN 1 ELSE 0), d |-> 1, s |-> << >>]

NoneV == [t |-> "none", n |-> 0, d |-> 1, s |-> << >>]

\* float('inf'): the float every text beyond the largest float reads as; the
\* denominator 0 marks it, the numerator 1 or -1 is its sign
inf == [t |-> "float", n |-> 1, d |-> 0, s |-> << >>]

\* a cell's Expression object; s is its .value, the formula text
ExprV(s) == [t |-> "expr", n |-> 0, d |-> 1, s |-> s]

\* isinstance(v, (int, float)): bool is a subclass of int
IsIntOrFloat(v) == v.t \in {"int", "float", "bool"}

\* isinstance(v, str)
IsStr(v) == v.t = "str"

\* float.is_integer()
IsInteger(v) == v.d = 1

\* --------------------------------------------- text <-> number conversion
\* value of a run of decimal digits
RECURSIVE DigitsVal(_)
DigitsVal(ds) ==
  IF ds = << >> THEN 0
  ELSE 10 * DigitsVal(SubSeq(ds, 1, Len(ds) - 1)) + (Ord(ds[Len(ds)]) - 48)

\* str(k) for a natural number k
RECURSIVE NatStr(_)
NatStr(k) ==
  IF k < 10 THEN << Chr(48 + k) >>
  ELSE NatStr(k \div 10) \o << Chr(48 + (k % 10)) >>

\* str(k) for an int
IntStr(k) == IF k < 0 THEN << "-" >> \o NatStr(0 - k) ELSE NatStr(k)

\* the decimal digits of the fraction r/d, 0 <= r < d, d a divisor of a
\* power of ten
RECURSIVE FracDigits(_, _)
FracDigits(r, d) ==
  IF r = 0 THEN << >>
  ELSE << Chr(48 + ((10 * r) \div d)) >> \o FracDigits((10 * r) % d, d)

\* str(x) for a float x = n/d: the shortest decimal text that reads back as x
FloatStr(n, d) ==
  LET a == Abs(n)
      sign == IF n < 0 THEN << "-" >> ELSE << >>
  IN sign \o NatStr(a \div d) \o << "." >> \o
     (IF a % d = 0 THEN << "0" >> ELSE FracDigits(a % d, d))

\* str(v)
PyStr(v) ==
  CASE v.t = "int" -> IntStr(v.n)
    [] v.t = "float" /\ v.d = 0 ->
         IF v.n < 0 THEN << "-", "i", "n", "f" >> ELSE << "i", "n", "f" >>
    [] v.t = "float" -> FloatStr(v.n, v.d)
    [] v.t = "bool" -> IF v.n = 1 THEN << "T", "r", "u", "e" >>
                       ELSE << "F", "a", "l", "s", "e" >>
    [] v.t = "none" -> << "N", "o", "n", "e" >>
    [] OTHER -> v.s

\* int(tok) succeeds exactly on an optional sign followed by digits
IsIntText(tok) ==
  LET body == IF Head(tok) \in {"+", "-"} THEN Tail(tok) ELSE tok
  IN body # << >> /\ \A i \in 1..Len(body) : IsDigit(body[i])

\* sys.float_info.max_10_exp: 1e308 is a float, 1e309 is beyond the largest
DBL_MAX_10_EXP == 308

\* float(tok) for a signed "iEn" with digits i and n: infinite as soon as
\* i * 10^n is beyond the largest float
ScientificOfText(neg, body) ==
  LET e == CHOOSE i \in 1..Len(body) : body[i] \in {"e", "E"}
      ip == DigitsVal(SubSeq(body, 1, e - 1))
      n == DigitsVal(SubSeq(body, e + 1, Len(body)))
  IN IF ip = 0 THEN FloatV(0, 1)
     ELSE IF n > DBL_MAX_10_EXP THEN FloatV(IF neg THEN 0 - 1 ELSE 1, 0)
     ELSE FloatV((IF neg THEN 0 - ip ELSE ip) * IntPow(10, n), 1)

\* float(tok) for a signed decimal "i.f" or a signed "iEn"
FloatOfText(tok) ==
  LET neg == Head(tok) = "-"
      body == IF Head(tok) \in {"+", "-"} THEN Tail(tok) ELSE tok
      dot == CHOOSE i \in 1..Len(body) : body[i] = "."
      ip == SubSeq(body, 1, dot - 1)
      fp == SubSeq(body, dot + 1, Len(body))
      scale == IntPow(10, Len(fp))
      mag == DigitsVal(ip) * scale + DigitsVal(fp)
  IN IF \E i \in 1..Len(body) : body[i] \in {"e", "E"}
     THEN ScientificOfText(neg, body)
     ELSE FloatV(IF neg THEN 0 - mag ELSE mag, scale)

\* int(tok)
IntOfText(tok) ==
  LET neg == Head(tok) = "-"
      body == IF Head(tok) \in {"+", "-"} THEN Tail(tok) ELSE tok
  IN IntV(IF neg THEN 0 - DigitsVal(body) ELSE DigitsVal(body))

\* the default text of every value, without the display rules
to_str_default(value) == PyStr(value)

\* to_str(value)
to_str(value) ==
  IF value.t = "float" /\ IsInteger(value) THEN PyStr(IntV(value.n))
  ELSE IF value.t = "bool"
       THEN PyStr(StrV(IF value.n = 1 THEN << "T", "R", "U", "E" >>
                       ELSE << "F", "A", "L", "S", "E" >>))
  ELSE PyStr(value)

\* ------------------------------------------------- outcomes of a rule call
\* the seven members of EvaluationError
EvaluationError == {"DIV0", "VALUE", "NA", "NAME", "NUM", "REF", "NULL"}

\* no exception
NoExc == [cls |-> "", error |-> "", msg |-> << >>]

\* ExpressionEvaluationException(error)
ExpressionEvaluationException(error) ==
  [cls |-> "ExpressionEvaluationException", error |-> error, msg |-> << >>]

\* any other Python exception, with the words of its message
PyExc(cls, msg) == [cls |-> cls, error |-> "", msg |-> msg]

\* a rule returned v
Ret(v) == [ok |-> TRUE, v |-> v, exc |-> NoExc]

\* a rule raised e
Raise(e) == [ok |-> FALSE, v |-> NoneV, exc |-> e]

\* ------------------------------------------------------------- the rules
\* number keeping the integer part only
number_truncating(val) ==
  IF IsIntText(val) THEN Ret(IntOfText(val))
  ELSE IF FloatOfText(val).d = 0 THEN Ret(FloatOfText(val))
  ELSE Ret(IntV(FloatOfText(val).n \div FloatOfText(val).d))

\* ExpressionEvaluator.number
number(val) == IF IsIntText(val) THEN Ret(IntOfText(val)) ELSE Ret(FloatOfText(val))

\* ExpressionEvaluator.string: the token without its first and last character
string(a) == Ret(StrV(SubSeq(a, 2, Len(a) - 1)))

\* error_ref raising the error of an unknown name
error_ref_name == Raise(ExpressionEvaluationException("NAME"))

\* ExpressionEvaluator.error_ref
error_ref == Raise(ExpressionEvaluationException("REF"))

\* the six tokens of the grammar's logical_op
LogicalOps == {"=", "<>", "<", "<=", ">", ">="}

\* type(a) if type(a) != int else float
BroadType(a) == IF a.t = "int" THEN "float" ELSE a.t

\* the ordinals with text and boolean exchanged
type_val_mapper_exchanged == [float |-> 0, str |-> 100, bool |-> 50]

\* type_val_mapper
type_val_mapper == [float |-> 0, str |-> 50, bool |-> 100]

\* Python's a == b on two values of one broad type
PyEq(a, b) ==
  IF a.t = "str" THEN a.s = b.s
  ELSE IF a.t = "none" THEN TRUE
  ELSE a.n * b.d = b.n * a.d

\* a <= b in the place of a < b
PyLess_or_equal(a, b) ==
  IF a.t = "str" THEN StrLess(a.s, b.s) \/ a.s = b.s ELSE a.n * b.d <= b.n * a.d

\* Python's a < b on two values of one broad type other than NoneType
PyLess(a, b) ==
  IF a.t = "str" THEN StrLess(a.s, b.s) ELSE a.n * b.d < b.n * a.d

\* the operand as compared, with its case kept
lowered_keeping_case(a) == a

\* if isinstance(a, str): a = str(a).lower()
lowered(a) == IF IsStr(a) THEN StrV(Lower(a.s)) ELSE a

\* ExpressionEvaluator.logical
logical(a0, op, b0) ==
  LET a1 == lowered(a0)
      b1 == lowered(b0)
      a_type == BroadType(a1)
      b_type == BroadType(b1)
      mismatch == a_type # b_type
      unmapped == mismatch /\ (a_type \notin DOMAIN type_val_mapper
                               \/ b_type \notin DOMAIN type_val_mapper)
      a == IF mismatch /\ ~unmapped THEN IntV(type_val_mapper[a_type]) ELSE a1
      b == IF mismatch /\ ~unmapped THEN IntV(type_val_mapper[b_type]) ELSE b1
      unordered == a.t = "none"
  IN IF unmapped THEN Raise(PyExc("KeyError", << >>))
     ELSE IF op = "=" THEN Ret(BoolV(PyEq(a, b)))
     ELSE IF op = "<>" THEN Ret(BoolV(~PyEq(a, b)))
     ELSE IF op \in {"<", "<=", ">", ">="} /\ unordered
          THEN Raise(PyExc("TypeError", << "not", "supported", "between" >>))
     ELSE IF op = "<" THEN Ret(BoolV(PyLess(a, b)))
     ELSE IF op = "<=" THEN Ret(BoolV(PyLess(a, b) \/ PyEq(a, b)))
     ELSE IF op = ">" THEN Ret(BoolV(PyLess(b, a)))
     ELSE IF op = ">=" THEN Ret(BoolV(PyLess(b, a) \/ PyEq(a, b)))
     ELSE Raise(PyExc("ValueError", << "Unrecognized", "logical", "operator" >>))

\* the operator tokens of the grammar's three arithmetic tiers
ArithmeticOps == {"+", "-", "*", "/", "^"}

\* sys.float_info.max_exp: 2^1024 is beyond the largest float
DBL_MAX_EXP == 1024

\* the result of + - * kept an integer whatever the operands
NumV_integer(a, b, n, d) == IntV(n \div d)

\* the result type of + - * on two numbers: float as soon as one is a float
NumV(a, b, n, d) ==
  IF a.t = "float" \/ b.t = "float" THEN FloatV(n, d) ELSE IntV(n \div d)

\* math.pow(a, b) with an infinite a or b: C's pow, which reports no error
\* on an infinite operand
pow_inf(a, b) ==
  IF b.n = 0 \/ a.n = a.d THEN FloatV(1, 1)
  ELSE IF b.d = 0
  THEN IF Abs(a.n) = a.d /\ a.d # 0 THEN FloatV(1, 1)
       ELSE IF (Abs(a.n) > a.d) = (b.n > 0) THEN inf
       ELSE FloatV(0, 1)
  ELSE IF b.n < 0 THEN FloatV(0, 1)
  ELSE IF a.n < 0 /\ b.d = 1 /\ b.n % 2 = 1 THEN FloatV(0 - 1, 0)
  ELSE inf

\* math.pow(a, b) on two numbers; the result is always a float
math_pow(a, b) ==
  IF a.d = 0 \/ b.d = 0 THEN Ret(pow_inf(a, b))
  ELSE IF (a.n = 0 /\ b.n < 0) \/ (a.n < 0 /\ b.d # 1)
  THEN Raise(PyExc("ValueError", << "math", "domain", "error" >>))
  ELSE IF Abs(a.n) >= 2 * a.d /\ b.n >= DBL_MAX_EXP * b.d
  THEN Raise(PyExc("OverflowError", << "math", "range", "error" >>))
  ELSE IF b.n = 0 \/ a.n = a.d THEN Ret(FloatV(1, 1))
  ELSE IF a.n = 0 THEN Ret(FloatV(0, 1))
  ELSE IF b.n > 0 THEN Ret(FloatV(IntPow(a.n, b.n), IntPow(a.d, b.n)))
  ELSE Ret(FloatV(IntPow(a.d, 0 - b.n), IntPow(a.n, 0 - b.n)))

\* ExpressionEvaluator.arithmetic
arithmetic(a, op, b) ==
  IF ~IsIntOrFloat(a) \/ ~IsIntOrFloat(b)
  THEN Raise(ExpressionEvaluationException("VALUE"))
  ELSE IF op = "+" THEN Ret(NumV(a, b, a.n * b.d + b.n * a.d, a.d * b.d))
  ELSE IF op = "-" THEN Ret(NumV(a, b, a.n * b.d - b.n * a.d, a.d * b.d))
  ELSE IF op = "*" THEN Ret(NumV(a, b, a.n * b.n, a.d * b.d))
  ELSE IF op = "/" THEN
    IF b.n = 0 THEN Raise(PyExc("ZeroDivisionError", << "division", "by", "zero" >>))
    ELSE Ret(FloatV(a.n * b.d, a.d * b.n))
  ELSE IF op = "^" THEN
    LET r == math_pow(a, b)
    IN IF ~r.ok /\ r.exc.cls = "OverflowError"
       THEN Raise(ExpressionEvaluationException("NUM"))
       ELSE r
  ELSE Ret(NoneV)

\* ExpressionEvaluator.concat
concat(a, b) == Ret(StrV(to_str(a) \o to_str(b)))

\* ------------------------------------------------------ function registry
\* the keys of function_map
FunctionNames == {<< "a", "b", "s" >>, << "l", "e", "n" >>}

\* the builtin abs(*args); the messages are CPython's, word by word
py_abs(args) ==
  IF Len(args) # 1
  THEN Raise(PyExc("TypeError",
         << "abs()", "takes", "exactly", "one", "argument" >>))
  ELSE IF args[1].t \in {"str", "none"}
  THEN Raise(PyExc("TypeError",
         << "bad", "operand", "type", "for", "abs()" >>))
  ELSE IF args[1].t = "float" THEN Ret(FloatV(Abs(args[1].n), args[1].d))
  ELSE Ret(IntV(Abs(args[1].n)))

\* lambda val: len(str(val)), called with *args
py_len(args) ==
  IF Len(args) = 0
  THEN Raise(PyExc("TypeError",
         << "<lambda>()", "missing", "1", "required", "positional", "argument" >>))
  ELSE IF Len(args) > 1
  THEN Raise(PyExc("TypeError",
         << "<lambda>()", "takes", "1", "positional", "argument", "but" >>))
  ELSE Ret(IntV(Len(PyStr(args[1]))))

\* function_map[key](*args) for a registered key
function_map(key, args) ==
  IF key = << "a", "b", "s" >> THEN py_abs(args) ELSE py_len(args)

\* msg.startswith('bad operand type')
BadOperandType(msg) == StartsWith(msg, << "bad", "operand", "type" >>)

\* 'takes exactly' in msg
TakesExactly(msg) ==
  \E i \in 1..(Len(msg) - 1) : msg[i] = "takes" /\ msg[i + 1] = "exactly"

\* the clause with the operand-type test left out
function_type_error_count_only(ex) ==
  IF TakesExactly(ex.msg) THEN Raise(ExpressionEvaluationException("NA"))
  ELSE Raise(ex)

\* the except TypeError clause of ExpressionEvaluator.function
function_type_error(ex) ==
  IF BadOperandType(ex.msg) THEN Raise(ExpressionEvaluationException("VALUE"))
  ELSE IF TakesExactly(ex.msg) THEN Raise(ExpressionEvaluationException("NA"))
  ELSE Raise(ex)

\* the name used as the key as it is written
registry_key_as_written(name) == name

\* name.lower(), the key looked up in function_map
registry_key(name) == Lower(name)

\* ExpressionEvaluator.function
function(name, args) ==
  IF registry_key(name) \notin FunctionNames
  THEN Raise(ExpressionEvaluationException("NAME"))
  ELSE LET r == function_map(registry_key(name), args)
       IN IF r.ok THEN r
          ELSE IF r.exc.cls = "KeyError"
               THEN Raise(ExpressionEvaluationException("NAME"))
          ELSE IF r.exc.cls = "TypeError" THEN function_type_error(r.exc)
          ELSE r

\* --------------------------------------- the workbook, sheets and cells
\* Sheet.max_allowed_column
max_allowed_column == 255

\* Sheet.max_allowed_row
max_allowed_row == 65535

\* utils.column_from_spreadsheet on a run of letters: A = 0, Z = 25, AA = 26
RECURSIVE ColumnNumber(_)
ColumnNumber(ls) ==
  IF ls = << >> THEN 0
  ELSE 26 * ColumnNumber(SubSeq(ls, 1, Len(ls) - 1))
       + (Ord(LowerChar(ls[Len(ls)])) - 96)

\* text with every "$" removed
Unmarked(text) == SelectSeq(text, LAMBDA c : c # "$")

\* the coordinate with the rows counted from 0, so that no row is below
coordinate_zero_based(ls, ds) ==
  [ok |-> TRUE, row |-> DigitsVal(ds), column |-> ColumnNumber(ls) - 1]

\* the zero-based (row, column) of the letters ls and the digits ds; a row
\* below 1 is an IndexError
coordinate(ls, ds) ==
  IF DigitsVal(ds) < 1
  THEN [ok |-> FALSE, row |-> 0, column |-> 0]
  ELSE [ok |-> TRUE, row |-> DigitsVal(ds) - 1, column |-> ColumnNumber(ls) - 1]

\* utils.coordinate_from_spreadsheet: the coordinate of a reference such as
\* AE$18, whose "$" are ignored
coordinate_from_spreadsheet(text) ==
  coordinate(SelectSeq(Unmarked(text), IsLetter), SelectSeq(Unmarked(text), IsDigit))

\* Workbook.get_sheet_by_name: a KeyError when no sheet has that name
HasSheet(wb, name) == name \in DOMAIN wb

\* Sheet.cell(row, column, create=False): an IndexError when the coordinate
\* is not allowed or no cell exists there
HasCell(grid, row, column) ==
  /\ row <= max_allowed_row
  /\ column <= max_allowed_column
  /\ << row, column >> \in DOMAIN grid

\* the flag with Sheet.cell's default value, which creates absent cells
create_by_default == TRUE

\* the create argument cell_lookup passes to Sheet.cell
create == FALSE

\* the grid after Sheet.cell(row, column, create=flag): an absent cell at an
\* allowed coordinate is created, empty, only when flag is set
grid_after_cell(grid, row, column, flag) ==
  IF /\ flag
     /\ row <= max_allowed_row
     /\ column <= max_allowed_column
     /\ << row, column >> \notin DOMAIN grid
  THEN (<< row, column >> :> NoneV) @@ grid
  ELSE grid

\* the sheet after a lookup that creates the absent cell
sheet_after_created(sheet, rc) ==
  IF rc.ok THEN grid_after_cell(sheet, rc.row, rc.column, TRUE) ELSE sheet

\* the sheet after the second try block of cell_lookup
sheet_after(sheet, rc) ==
  IF rc.ok THEN grid_after_cell(sheet, rc.row, rc.column, create) ELSE sheet

\* the second try block without its except clause
cell_value_index_error(sheet, rc) ==
  IF ~rc.ok \/ ~HasCell(sheet_after(sheet, rc), rc.row, rc.column)
  THEN Raise(PyExc("IndexError", << "cell", "does", "not", "exist" >>))
  ELSE Ret(sheet_after(sheet, rc)[<< rc.row, rc.column >>])

\* the second try block of cell_lookup: the value of the cell of sheet at
\* the coordinate rc, 0 on an IndexError
cell_value(sheet, rc) ==
  IF ~rc.ok THEN Ret(IntV(0))
  ELSE IF ~HasCell(sheet_after(sheet, rc), rc.row, rc.column) THEN Ret(IntV(0))
  ELSE Ret(sheet_after(sheet, rc)[<< rc.row, rc.column >>])

\* cell_lookup looking on the sheet of the context cell whatever the qualifier
cell_lookup_own_sheet(cell, wb, ref_sheet, has_sheet, ref_col, ref_row) ==
  cell_value(wb[cell.worksheet], coordinate_from_spreadsheet(ref_col \o ref_row))

\* ExpressionEvaluator.cell_lookup; cell is the context cell (self._cell)
cell_lookup(cell, wb, ref_sheet, has_sheet, ref_col, ref_row) ==
  IF has_sheet /\ ~HasSheet(wb, ref_sheet)
  THEN Raise(ExpressionEvaluationException("REF"))
  ELSE cell_value(IF has_sheet THEN wb[ref_sheet] ELSE wb[cell.worksheet],
                  coordinate_from_spreadsheet(ref_col \o ref_row))

\* the workbook after cell_lookup: only Sheet.cell can change it
workbook_after_lookup(cell, wb, ref_sheet, has_sheet, ref_col, ref_row) ==
  IF has_sheet /\ ~HasSheet(wb, ref_sheet) THEN wb
  ELSE IF has_sheet
  THEN [wb EXCEPT ![ref_sheet] =
          sheet_after(wb[ref_sheet], coordinate_from_spreadsheet(ref_col \o ref_row))]
  ELSE [wb EXCEPT ![cell.worksheet] =
          sheet_after(wb[cell.worksheet], coordinate_from_spreadsheet(ref_col \o ref_row))]

\* ---------------------------------------------- the reference pattern
\* [A-Za-z0-9_ ]
IsSheetChar(c) == IsLetter(c) \/ IsDigit(c) \/ c \in {"_", " "}

\* the number of characters from position i on that are in the class
RECURSIVE RunLen(_, _, _)
RunLen(s, i, class) ==
  IF i > Len(s) THEN 0
  ELSE IF (class = "sheet" /\ IsSheetChar(s[i]))
          \/ (class = "letter" /\ IsLetter(s[i]))
          \/ (class = "digit" /\ IsDigit(s[i]))
       THEN 1 + RunLen(s, i + 1, class)
       ELSE 0

At(s, i) == IF i >= 1 /\ i <= Len(s) THEN s[i] ELSE ""

Min(a, b) == IF a < b THEN a ELSE b

\* the pattern without its optional characters
Opt_never(s, i, c) == i

\* an optional character c at position i: the position after it
Opt(s, i, c) == IF At(s, i) = c THEN i + 1 ELSE i

\* [A-Za-z0-9_ ]+'?! from position i: the position of the "!", or 0
SheetNameEnd(s, i, n) ==
  IF n >= 1 /\ At(s, Opt(s, i + n, "'")) = "!" THEN Opt(s, i + n, "'") ELSE 0

\* group 1, ('?[A-Za-z0-9_ ]+'?!), at the start of s: the position of its
\* "!", or 0 when it does not match
SheetGroupEnd(s) ==
  SheetNameEnd(s, Opt(s, 1, "'"), RunLen(s, Opt(s, 1, "'"), "sheet"))

\* group 3, (\$?\d{1,5}), from position r0, after nl column letters that
\* made group 2 from position i
RowGroup(s, i, nl, r0, nd) ==
  IF nl >= 1 /\ nl <= 3 /\ nd >= 1
  THEN [ok |-> TRUE, col |-> SubSeq(s, i, r0 - 1),
        row |-> SubSeq(s, r0, Opt(s, r0, "$") + nd - 1)]
  ELSE [ok |-> FALSE, col |-> << >>, row |-> << >>]

\* group 2, (\$?[A-Za-z]{1,3}), from position i with nl letters from c on
ColGroup(s, i, c, nl) ==
  RowGroup(s, i, nl, c + nl, Min(RunLen(s, Opt(s, c + nl, "$"), "digit"), 5))

\* groups 2 and 3 from position i of s
ColRowGroups(s, i) ==
  ColGroup(s, i, Opt(s, i, "$"), RunLen(s, Opt(s, i, "$"), "letter"))

\* the groups of the match: with group 1 when it and the rest match, else
\* without it
groups(name, e, with, without) ==
  IF e > 0 /\ with.ok
  THEN [ok |-> TRUE, has_sheet |-> TRUE, sheet |-> SubSeq(name, 1, e),
        col |-> with.col, row |-> with.row]
  ELSE [ok |-> without.ok, has_sheet |-> FALSE, sheet |-> << >>,
        col |-> without.col, row |-> without.row]

\* the pattern tried from the first character with group 1 ending at e
match_from(name, e) ==
  groups(name, e, ColRowGroups(name, e + 1), ColRowGroups(name, 1))

\* re.match(pattern, name): the match starts at the first character and
\* need not reach the last one
re_match(name) == match_from(name, SheetGroupEnd(name))

\* sheet[1:-1] when the name starts and ends with an apostrophe
unquoted(sheet) ==
  IF StartsWith(sheet, << "'" >>) /\ EndsWith(sheet, << "'" >>)
  THEN SubSeq(sheet, 2, Len(sheet) - 1) ELSE sheet

\* sheet[:-1], then unquoted
sheet_name(group) == unquoted(SubSeq(group, 1, Len(group) - 1))

\* the looked-up value returned as it is, a descriptor included
unwrapped_not(looked) == looked

\* a looked-up value that is not None, int, float or str gives its .value
unwrapped(looked) ==
  IF looked.ok /\ looked.v.t = "expr" THEN Ret(StrV(looked.v.s)) ELSE looked

\* the branch of atomic_string that follows re.match
reference(res, cell, wb) ==
  IF ~res.ok THEN Raise(ExpressionEvaluationException("NAME"))
  ELSE unwrapped(cell_lookup(cell, wb, sheet_name(res.sheet), res.has_sheet,
                             res.col, res.row))

\* ExpressionEvaluator.atomic_string
atomic_string(name, cell, wb) ==
  IF name = << "T", "R", "U", "E" >> THEN Ret(BoolV(TRUE))
  ELSE IF name = << "F", "A", "L", "S", "E" >> THEN Ret(BoolV(FALSE))
  ELSE reference(re_match(name), cell, wb)

\* the workbook after the branch of atomic_string that follows re.match
workbook_after_reference(res, cell, wb) ==
  IF ~res.ok THEN wb
  ELSE workbook_after_lookup(cell, wb, sheet_name(res.sheet), res.has_sheet,
                             res.col, res.row)

\* the workbook after atomic_string
workbook_after(name, cell, wb) ==
  IF name \in {<< "T", "R", "U", "E" >>, << "F", "A", "L", "S", "E" >>} THEN wb
  ELSE workbook_after_reference(re_match(name), cell, wb)

\* ------------------------------------------------------------ the grammar
\* a token of the formula text: a named terminal with its text, or one of the
\* grammar's anonymous terminals ("=", "(", "&", "<=", "#REF!", ...), whose
\* type is "ANON"
Token(type, value) == [type |-> type, value |-> value]

Anon(text) == Token("ANON", << text >>)

\* a node of the parse tree: the rule that is called for it, the token the
\* rule receives and the number of its child nodes
Node(rule, tok, k) == [rule |-> rule, tok |-> tok, k |-> k]

\* the outcome of parsing from some position: the position after the part
\* parsed and the nodes of its tree in post-order, or no parse
NoParse == [ok |-> FALSE, pos |-> 0, tree |-> << >>]

Parsed(pos, tree) == [ok |-> TRUE, pos |-> pos, tree |-> tree]

\* the token at position i is the anonymous terminal of one of the texts
IsAnon(ts, i, texts) ==
  /\ i >= 1 /\ i <= Len(ts)
  /\ ts[i].type = "ANON"
  /\ ts[i].value[1] \in texts

\* the alternative with the right operand's nodes before the left one's
Binary_right_first(left, right, rule, op) ==
  IF left.ok /\ right.ok
  THEN Parsed(right.pos, right.tree \o left.tree \o << Node(rule, op, 2) >>)
  ELSE NoParse

\* the alternative "left operator right" of a binary rule: the nodes of the
\* left operand, those of the right one, then the operator's
Binary(left, right, rule, op) ==
  IF left.ok /\ right.ok
  THEN Parsed(right.pos, left.tree \o right.tree \o << Node(rule, op, 2) >>)
  ELSE NoParse

\* the terminal text expected at the position where inner ends
Closed(ts, inner, text) ==
  IF inner.ok /\ IsAnon(ts, inner.pos, {text})
  THEN Parsed(inner.pos + 1, inner.tree) ELSE NoParse

RECURSIVE logical_stmt(_, _), logical_stmt_rest(_, _), text_stmt(_, _),
          text_stmt_rest(_, _), sum(_, _), sum_rest(_, _), product(_, _),
          product_rest(_, _), exponentiation(_, _), exponentiation_rest(_, _),
          exponentiation_left(_, _), exponentiation_left_rest(_, _),
          atom(_, _), arguments(_, _, _, _)

\* ?root: logical_stmt
root(ts, i) == logical_stmt(ts, i)

\* ?logical_stmt: text_stmt | logical_stmt logical_op text_stmt -> logical
logical_stmt(ts, i) == logical_stmt_rest(ts, text_stmt(ts, i))

logical_stmt_rest(ts, left) ==
  IF left.ok /\ IsAnon(ts, left.pos, LogicalOps)
  THEN logical_stmt_rest(ts, Binary(left, text_stmt(ts, left.pos + 1),
                                    "logical", ts[left.pos].value))
  ELSE left

\* ?text_stmt: sum | text_stmt "&" sum -> concat
text_stmt(ts, i) == text_stmt_rest(ts, sum(ts, i))

text_stmt_rest(ts, left) ==
  IF left.ok /\ IsAnon(ts, left.pos, {"&"})
  THEN text_stmt_rest(ts, Binary(left, sum(ts, left.pos + 1),
                                 "concat", ts[left.pos].value))
  ELSE left

\* ?sum: product | sum /[+-]/ product -> arithmetic
sum(ts, i) == sum_rest(ts, product(ts, i))

sum_rest(ts, left) ==
  IF left.ok /\ IsAnon(ts, left.pos, {"+", "-"})
  THEN sum_rest(ts, Binary(left, product(ts, left.pos + 1),
                           "arithmetic", ts[left.pos].value))
  ELSE left

\* ?product: exponentiation | product /[*\/]/ exponentiation -> arithmetic
product(ts, i) == product_rest(ts, exponentiation(ts, i))

product_rest(ts, left) ==
  IF left.ok /\ IsAnon(ts, left.pos, {"*", "/"})
  THEN product_rest(ts, Binary(left, exponentiation(ts, left.pos + 1),
                               "arithmetic", ts[left.pos].value))
  ELSE left

\* the rule written like the other tiers: exponentiation "^" atom
exponentiation_left(ts, i) == exponentiation_left_rest(ts, atom(ts, i))

exponentiation_left_rest(ts, left) ==
  IF left.ok /\ IsAnon(ts, left.pos, {"^"})
  THEN exponentiation_left_rest(ts, Binary(left, atom(ts, left.pos + 1),
                                           "arithmetic", ts[left.pos].value))
  ELSE left

\* ?exponentiation: atom | atom /\^/ exponentiation -> arithmetic
exponentiation(ts, i) == exponentiation_rest(ts, atom(ts, i))

exponentiation_rest(ts, left) ==
  IF left.ok /\ IsAnon(ts, left.pos, {"^"})
  THEN Binary(left, exponentiation(ts, left.pos + 1),
              "arithmetic", ts[left.pos].value)
  ELSE left

\* [ root ( "," root )* ] ")" of a call of name, from position i; args holds
\* the number of arguments parsed so far (as its pos) and their nodes; a
\* call without argument is a node without child
arguments(ts, i, name, args) ==
  IF args.pos = 0 /\ IsAnon(ts, i, {")"})
  THEN Parsed(i + 1, << Node("function", name, 0) >>)
  ELSE IF ~root(ts, i).ok THEN NoParse
  ELSE IF IsAnon(ts, root(ts, i).pos, {","})
  THEN arguments(ts, root(ts, i).pos + 1, name,
                 Parsed(args.pos + 1, args.tree \o root(ts, i).tree))
  ELSE IF IsAnon(ts, root(ts, i).pos, {")"})
  THEN Parsed(root(ts, i).pos + 1,
              args.tree \o root(ts, i).tree
              \o << Node("function", name, args.pos + 1) >>)
  ELSE NoParse

\* ?atom: NUMBER -> number | string | "(" root ")"
\*      | FUNC_NAME "(" [ root ( "," root )* ] ")" -> function
\*      | "#REF!" -> error_ref | ATOMIC_STR -> atomic_string
atom(ts, i) ==
  IF i > Len(ts) THEN NoParse
  ELSE IF ts[i].type = "NUMBER"
  THEN Parsed(i + 1, << Node("number", ts[i].value, 0) >>)
  ELSE IF ts[i].type = "ESCAPED_STRING"
  THEN Parsed(i + 1, << Node("string", ts[i].value, 0) >>)
  ELSE IF ts[i].type = "ATOMIC_STR"
  THEN Parsed(i + 1, << Node("atomic_string", ts[i].value, 0) >>)
  ELSE IF IsAnon(ts, i, {"#REF!"})
  THEN Parsed(i + 1, << Node("error_ref", << >>, 0) >>)
  ELSE IF IsAnon(ts, i, {"("})
  THEN Closed(ts, root(ts, i + 1), ")")
  ELSE IF ts[i].type = "FUNC_NAME" /\ IsAnon(ts, i + 1, {"("})
  THEN arguments(ts, i + 2, ts[i].value, Parsed(0, << >>))
  ELSE NoParse

\* the whole text is parsed when the parse ends after the last token
Whole(ts, parse) == IF parse.ok /\ parse.pos = Len(ts) + 1 THEN parse ELSE NoParse

\* a parse that accepts a text without its "=" or "+"
start_unmarked(ts) ==
  IF IsAnon(ts, 1, {"=", "+"}) THEN Whole(ts, root(ts, 2)) ELSE Whole(ts, root(ts, 1))

\* ?start: "=" root | "+" root; _parser.parse(expression)
start(ts) ==
  IF IsAnon(ts, 1, {"=", "+"}) THEN Whole(ts, root(ts, 2)) ELSE NoParse

\* ------------------------------------------------------ inputs of the model
\* NUMBER tokens
NumberTokens ==
  { << "0" >>, << "-", "1" >>, << "2" >>, << "1", ".", "5" >>,
    << "2", ".", "0" >>, << "1", "0", "2", "4" >> }

\* ESCAPED_STRING tokens, with their quotes
StringTokens ==
  { << "\"", "a", "\"" >>, << "\"", "A", "\"" >>, << "\"", "b", "\"" >> }

\* ATOMIC_STR tokens of the formulas that are not spelled out
AtomicTokens ==
  { << "T", "R", "U", "E" >>, << "F", "A", "L", "S", "E" >>, << "f", "o", "o" >>,
    << "A", "1" >>, << "B", "1" >>, << "C", "1" >>, << "A", "2" >>, << "B", "2" >>,
    << "T", "!", "A", "1" >>, << "X", "!", "A", "1" >> }

\* ATOMIC_STR tokens of the formulas that are one bareword
BarewordTokens ==
  { << "t", "r", "u", "e" >>,
    << "$", "A", "$", "1" >>, << "$", "A", "1" >>, << "A", "$", "1" >>,
    << "Z", "9" >>, << "A", "0" >>,
    << "Z", "Z", "Z", "1" >>, << "A", "A", "A", "A", "1" >>,
    << "T", "!", "$", "A", "$", "1" >>, << "'", "T", "'", "!", "A", "1" >>,
    << "'", "T", "!", "A", "1" >>, << "T", "!", "B", "1" >>,
    << "X", "!", "A", "0" >>, << "T", "!", "A", "0" >>,
    << "A", "7", "0", "0", "0", "0" >>, << "$", "I", "W", "$", "1" >>,
    << "'", "a", ".", "b", "'", "!", "A", "1" >>,
    << "A", "1", "x" >>, << "A", "1", "!", "x" >>,
    << "A", "1", "2", "3", "4", "5", "6" >> }

\* FUNC_NAME tokens
FunctionTokens ==
  { << "a", "b", "s" >>, << "A", "B", "S" >>, << "l", "e", "n" >>,
    << "f", "o", "o" >> }

\* SIGNED_NUMBER with a decimal point and no exponent
IsDecimalText(text) ==
  /\ text # << >>
  /\ LET body == IF Head(text) \in {"+", "-"} THEN Tail(text) ELSE text
     IN /\ Cardinality({i \in 1..Len(body) : body[i] = "."}) = 1
        /\ \E i \in 1..Len(body) : IsDigit(body[i])
        /\ \A i \in 1..Len(body) : IsDigit(body[i]) \/ body[i] = "."

\* ATOMIC_STR: (LETTER | "$" | "'") ("_"|LETTER|DIGIT|"."|"!"|"$"|"'"|" ")*
IsAtomicText(text) ==
  /\ text # << >>
  /\ IsLetter(text[1]) \/ text[1] \in {"$", "'"}
  /\ \A i \in 2..Len(text) :
       IsLetter(text[i]) \/ IsDigit(text[i]) \/ text[i] \in {"_", ".", "!", "$", "'", " "}

\* the tokens of a text that is empty, one number, one bareword, or has a
\* character no terminal matches
Lex(text) ==
  IF text = << >> THEN << >>
  ELSE IF IsIntText(text) \/ IsDecimalText(text) THEN << Token("NUMBER", text) >>
  ELSE IF IsAtomicText(text) THEN << Token("ATOMIC_STR", text) >>
  ELSE << Token("UNEXPECTED", text) >>

SheetS == << "S" >>

SheetT == << "T" >>

SheetX == << "X" >>

\* a sheet name with a character that is not a letter, a digit, "_" or " "
SheetDotted == << "a", ".", "b" >>

\* a workbook: sheet name -> (zero-based (row, column) -> stored cell value)
Workbook1 ==
  (SheetS :> (<< 0, 0 >> :> IntV(2) @@ << 0, 1 >> :> StrV(<< "a" >>)
              @@ << 0, 2 >> :> BoolV(TRUE) @@ << 1, 0 >> :> NoneV
              @@ << 1, 1 >> :> ExprV(<< "=", "C", "2" >>)
              @@ << 1, 2 >> :> ExprV(<< "=", "B", "2" >>)))
  @@ (SheetT :> (<< 0, 0 >> :> FloatV(3, 2)))

Workbook2 ==
  (SheetT :> (<< 0, 0 >> :> StrV(<< "A" >>)))
  @@ (SheetX :> (<< 0, 0 >> :> IntV(0)))
  @@ (SheetDotted :> (<< 0, 0 >> :> BoolV(FALSE)))

\* (workbook, context cell) pairs an evaluation is started with
Contexts ==
  { [wb |-> Workbook1, cell |-> [worksheet |-> SheetS]],
    [wb |-> Workbook2, cell |-> [worksheet |-> SheetT]] }

\* the Values whose display text is evaluated again as a formula
DisplayValues ==
  { IntV(0), IntV(0 - 1), IntV(2), IntV(1024), FloatV(3, 2), FloatV(2, 1),
    FloatV(0 - 1, 4), BoolV(TRUE), BoolV(FALSE),
    StrV(<< "a" >>), StrV(<< "A", "1" >>), StrV(<< "2" >>), StrV(<< >>),
    StrV(<< "?" >>), StrV(<< "T", "R", "U", "E" >>) }

\* the formula "=" followed by the display text of v
Displayed(v) == << Anon("=") >> \o Lex(to_str(v))

\* the operators and the literals of the formulas a o1 b o2 c
ChainOps == {"<", "&", "+", "-", "*", "/", "^"}

First == Token("NUMBER", << "2" >>)

Second == Token("NUMBER", << "-", "1" >>)

Third == Token("NUMBER", << "2" >>)

\* the formula =2 o1 -1 o2 2
Chain(o1, o2) == << Anon("="), First, Anon(o1), Second, Anon(o2), Third >>

\* formula texts the grammar accepts
WellFormed ==
  { << Anon("="), First >>,
    << Anon("+"), First >>,
    << Anon("="), Anon("("), First, Anon(")") >>,
    << Anon("="), Anon("#REF!") >>,
    << Anon("="), Token("ESCAPED_STRING", << "\"", "a", "\"" >>) >>,
    << Anon("="), Token("ATOMIC_STR", << "B", "2" >>) >>,
    << Anon("="), Token("FUNC_NAME", << "A", "B", "S" >>), Anon("("), Second,
       Anon(")") >>,
    << Anon("="), Token("FUNC_NAME", << "l", "e", "n" >>), Anon("("),
       Token("ESCAPED_STRING", << "\"", "a", "\"" >>), Anon(","), First,
       Anon(")") >>,
    << Anon("="), First, Anon("*"), Anon("("), Second, Anon("+"), Third,
       Anon(")") >> }

\* formula texts the grammar rejects: no text, no leading "=" or "+", no
\* operand, unbalanced parentheses, a dangling or a leading operator, two
\* operands without operator, an unfinished argument list
Malformed ==
  { << >>,
    << First, Anon("+"), Third >>,
    << Anon("=") >>,
    << Anon("="), Anon("("), First >>,
    << Anon("="), First, Anon(")") >>,
    << Anon("="), First, Anon("+") >>,
    << Anon("="), Anon("*"), First >>,
    << Anon("="), First, Third >>,
    << Anon("="), Anon("="), First >>,
    << Anon("="), Token("FUNC_NAME", << "a", "b", "s" >>), Anon("("), First,
       Anon(",") >> }

\* the formulas a^b whose result is beyond the largest float: =2^1024,
\* =2^1e999, =1e999^2
Overflowing ==
  { << Anon("="), First, Anon("^"), Token("NUMBER", << "1", "0", "2", "4" >>) >>,
    << Anon("="), First, Anon("^"), Token("NUMBER", << "1", "e", "9", "9", "9" >>) >>,
    << Anon("="), Token("NUMBER", << "1", "e", "9", "9", "9" >>), Anon("^"), Third >> }

\* the formulas a op b of two numeric literals, op one of + - *
Sums ==
  { << Anon("="), Token("NUMBER", a), Anon(op), Token("NUMBER", b) >> :
      a \in NumberTokens \ {<< "1", "0", "2", "4" >>},
      b \in NumberTokens \ {<< "1", "0", "2", "4" >>},
      op \in {"+", "-", "*"} }

\* formulas with more than one failing node: =foo(#REF!), =2/0+#REF!,
\* =#REF!+2/0, =foo(2/0,#REF!)
Failing ==
  { << Anon("="), Token("FUNC_NAME", << "f", "o", "o" >>), Anon("("),
       Anon("#REF!"), Anon(")") >>,
    << Anon("="), First, Anon("/"), Token("NUMBER", << "0" >>), Anon("+"),
       Anon("#REF!") >>,
    << Anon("="), Anon("#REF!"), Anon("+"), First, Anon("/"),
       Token("NUMBER", << "0" >>) >>,
    << Anon("="), Token("FUNC_NAME", << "f", "o", "o" >>), Anon("("),
       First, Anon("/"), Token("NUMBER", << "0" >>), Anon(","),
       Anon("#REF!"), Anon(")") >> }

\* the formula texts evaluate() is called with
Expressions ==
  WellFormed \cup Malformed \cup Overflowing \cup Sums \cup Failing
  \cup {<< Anon("="), Token("ATOMIC_STR", name) >> : name \in AtomicTokens \cup BarewordTokens}
  \cup {Displayed(v) : v \in DisplayValues}
  \cup {Chain(o1, o2) : o1, o2 \in ChainOps}

\* a formula the model does not spell out: its parse is any tree of at most
\* MaxNodes nodes, which the walk visits node after node
SomeFormula == << Token("FORMULA", << >>) >>

AnyTree == << Node("any", << >>, 0) >>

\* --------------------------------------------------------------- the state
VARIABLES
  workbook,  \* the workbook that owns the context cell
  cell,      \* the context cell passed to evaluate()
  expression, \* the formula text passed to evaluate(), as its tokens
  tree,      \* the nodes of the parse tree in post-order, once parsed
  pc,        \* "parse": evaluate() called; "transform": walking the tree;
             \* "raised": a rule raised and the VisitError is on its way to
             \* evaluate(); "done": returned or raised
  stack,     \* the values of the visited nodes whose parent is not visited yet
  nodes,     \* the number of nodes visited
  last,      \* the last rule called: its name, token, arguments and outcome
  exc,       \* VisitError.orig_exc while pc = "raised"
  result,    \* what evaluate() returned or let escape
  previous   \* what the call of evaluate() before this one, with the same
             \* text and cell, returned or let escape; NoResult in the first

vars ==
  << workbook, cell, expression, tree, pc, stack, nodes, last, exc, result,
     previous >>

NoCall == [rule |-> "", tok |-> << >>, args |-> << >>, out |-> Ret(NoneV)]

NoResult == [kind |-> "", v |-> NoneV, error |-> "", cls |-> ""]

\* evaluate() returned the value v
Returned(v) == [kind |-> "value", v |-> v, error |-> "", cls |-> ""]

\* evaluate() returned the EvaluationError member error
ReturnedError(error) == [kind |-> "error", v |-> NoneV, error |-> error, cls |-> ""]

\* evaluate() re-raised an exception of class cls
Escaped(cls) == [kind |-> "fault", v |-> NoneV, error |-> "", cls |-> cls]

Init ==
  /\ \E c \in Contexts : workbook = c.wb /\ cell = c.cell
  /\ expression \in Expressions \cup {SomeFormula}
  /\ tree = << >>
  /\ pc = "parse"
  /\ stack = << >>
  /\ nodes = 0
  /\ last = NoCall
  /\ exc = NoExc
  /\ result = NoResult
  /\ previous = NoResult

\* the exception _parser.parse raises on a text the grammar rejects
parse_error == Escaped("UnexpectedInput")

\* evaluate(): tree = _parser.parse(expression), outside the try block
Parse ==
  /\ pc = "parse"
  /\ IF expression = SomeFormula
     THEN /\ tree' = AnyTree
          /\ pc' = "transform"
          /\ UNCHANGED result
     ELSE IF start(expression).ok
     THEN /\ tree' = start(expression).tree
          /\ pc' = "transform"
          /\ UNCHANGED result
     ELSE /\ pc' = "done"
          /\ result' = parse_error
          /\ UNCHANGED tree
  /\ UNCHANGED << workbook, cell, expression, stack, nodes, last, exc, previous >>

\* the node visited next is a node of rule with the token tok and k children
IsNext(rule, tok, k) ==
  IF tree = AnyTree
  THEN nodes < MaxNodes /\ Len(stack) - k < MaxStack
  ELSE nodes < Len(tree) /\ tree[nodes + 1] = Node(rule, tok, k)

\* the tokens the next node can hold: any of tokens when the tree is not
\* spelled out, else the token of the tree's next node
Candidates(tokens) ==
  IF tree = AnyTree THEN tokens
  ELSE IF nodes < Len(tree) THEN {tree[nodes + 1].tok}
  ELSE {}

\* the last k values of the stack, the children of the node being visited
Top(k) == SubSeq(stack, Len(stack) - k + 1, Len(stack))

\* Transformer._call_userfunc for a node with k children: the rule's value
\* replaces the children's; an exception ends the walk as a VisitError
VisitNode(rule, tok, k, out) ==
  /\ pc = "transform"
  /\ Len(stack) >= k
  /\ IsNext(rule, tok, k)
  /\ nodes' = nodes + 1
  /\ last' = [rule |-> rule, tok |-> tok, args |-> Top(k), out |-> out]
  /\ IF out.ok
     THEN /\ stack' = Append(SubSeq(stack, 1, Len(stack) - k), out.v)
          /\ UNCHANGED << pc, exc >>
     ELSE /\ stack' = << >>
          /\ pc' = "raised"
          /\ exc' = out.exc
  /\ UNCHANGED << cell, expression, tree, result, previous >>

\* a rule that does not reach the workbook
Visit(rule, tok, k, out) ==
  /\ VisitNode(rule, tok, k, out)
  /\ UNCHANGED workbook

Number == \E val \in Candidates(NumberTokens) : Visit("number", val, 0, number(val))

String == \E a \in Candidates(StringTokens) : Visit("string", a, 0, string(a))

ErrorRef == Visit("error_ref", << >>, 0, error_ref)

AtomicString ==
  \E name \in Candidates(AtomicTokens) :
    /\ VisitNode("atomic_string", name, 0, atomic_string(name, cell, workbook))
    /\ workbook' = workbook_after(name, cell, workbook)

Logical ==
  \E op \in LogicalOps :
    /\ Len(stack) >= 2
    /\ Visit("logical", << op >>, 2, logical(Top(2)[1], op, Top(2)[2]))

\* |v| <= MaxNum with a denominator the model represents
Small(v) == Abs(v.n) <= MaxNum * v.d /\ v.d <= MaxDen

\* the operand pairs whose arithmetic result is an exact float of the model
InModel(a, op, b) ==
  \/ ~IsIntOrFloat(a) \/ ~IsIntOrFloat(b)
  \/ /\ op \in {"+", "-", "*"}
     /\ Small(a) /\ Small(b)
  \/ /\ op = "/"
     /\ Small(a) /\ Small(b)
     /\ b.n = 0 \/ IsPow2(Abs(b.n))
  \/ /\ op = "^"
     /\ \/ a.n = 0 \/ a.n = a.d
        \/ a.d = 0 \/ b.d = 0
        \/ a.n < 0 /\ b.d # 1
        \/ Abs(a.n) >= 2 * a.d /\ b.n >= DBL_MAX_EXP * b.d
        \/ /\ Small(a) /\ Small(b) /\ b.d = 1
           /\ b.n < 0 => IsPow2(Abs(a.n))

Arithmetic ==
  \E op \in ArithmeticOps :
    /\ Len(stack) >= 2
    /\ InModel(Top(2)[1], op, Top(2)[2])
    /\ Visit("arithmetic", << op >>, 2, arithmetic(Top(2)[1], op, Top(2)[2]))

Concat ==
  /\ Len(stack) >= 2
  /\ Visit("concat", << "&" >>, 2, concat(Top(2)[1], Top(2)[2]))

Function ==
  \E name \in Candidates(FunctionTokens), k \in 0..MaxArgs :
    /\ Len(stack) >= k
    /\ Visit("function", name, k, function(name, Top(k)))

\* evaluate(): the transform finished, return its result
Return ==
  /\ pc = "transform"
  /\ nodes >= 1
  /\ Len(stack) = 1
  /\ tree = AnyTree \/ nodes = Len(tree)
  /\ pc' = "done"
  /\ result' = Returned(stack[1])
  /\ stack' = << >>
  /\ UNCHANGED << workbook, cell, expression, tree, nodes, last, exc, previous >>

\* the clause without its ZeroDivisionError test
evaluate_except_without_div0(orig_exc) ==
  IF orig_exc.cls = "ExpressionEvaluationException"
  THEN ReturnedError(orig_exc.error)
  ELSE Escaped(orig_exc.cls)

\* the except VisitError clause of evaluate()
evaluate_except(orig_exc) ==
  IF orig_exc.cls = "ZeroDivisionError" THEN ReturnedError("DIV0")
  ELSE IF orig_exc.cls = "ExpressionEvaluationException"
       THEN ReturnedError(orig_exc.error)
  ELSE Escaped(orig_exc.cls)

\* evaluate(): the transform raised
Except ==
  /\ pc = "raised"
  /\ pc' = "done"
  /\ result' = evaluate_except(exc)
  /\ exc' = NoExc
  /\ UNCHANGED << workbook, cell, expression, tree, stack, nodes, last, previous >>

\* the formula is spelled out: its text is known
Spelt == expression # SomeFormula

\* evaluate() is called once more with the same text and the same cell:
\* evaluator = ExpressionEvaluator(cell) is a new object, the parser and
\* the registry are the module's, and the workbook is as the call before
\* left it
Again ==
  /\ pc = "done"
  /\ Spelt
  /\ previous = NoResult
  /\ previous' = result
  /\ pc' = "parse"
  /\ tree' = << >>
  /\ stack' = << >>
  /\ nodes' = 0
  /\ last' = NoCall
  /\ exc' = NoExc
  /\ result' = NoResult
  /\ UNCHANGED << workbook, cell, expression >>

Next ==
  \/ Parse
  \/ Number
  \/ String
  \/ ErrorRef
  \/ AtomicString
  \/ Logical
  \/ Arithmetic
  \/ Concat
  \/ Function
  \/ Return
  \/ Except
  \/ Again

Spec == Init /\ [][Next]_vars

\* ------------------------------------------------- vocabulary of the claims
\* a Value of the evaluator: integer, float, text or boolean
IsValue(v) == v.t \in {"int", "float", "str", "bool"}

\* integer or float
IsNumeric(v) == v.t \in {"int", "float"}

\* the broad category of a Value
Category(v) == IF IsNumeric(v) THEN "numeric" ELSE IF v.t = "str" THEN "text" ELSE "boolean"

\* the category ordinals
Ordinal(v) == IF IsNumeric(v) THEN 0 ELSE IF v.t = "str" THEN 50 ELSE 100

\* a comparison operator applied to two integers
Compare(op, x, y) ==
  CASE op = "=" -> x = y
    [] op = "<>" -> x # y
    [] op = "<" -> x < y
    [] op = "<=" -> x <= y
    [] op = ">" -> x > y
    [] op = ">=" -> x >= y

\* the rule named rule was the last one called
Called(rule) == last.rule = rule

\* the evaluation is over and the last rule called is the one that failed
FailedAt(rule) == Called(rule) /\ ~last.out.ok /\ pc = "done"

\* C1: every evaluation of a formula the grammar accepts ends by returning a
\* Value (integer, float, text, boolean) or one of the seven EvaluationError
\* kinds; no other fault escapes evaluate().
C1_ValueOrError ==
  (pc = "done" /\ tree # << >>) =>
    \/ result.kind = "value" /\ IsValue(result.v)
    \/ result.kind = "error" /\ result.error \in EvaluationError

\* C2: when the failing rule is a "/" of two numeric operands whose right
\* operand is zero, evaluate() returns (does not raise) DIV0.
C2_DivisionByZero ==
  (/\ FailedAt("arithmetic")
   /\ last.tok = << "/" >>
   /\ IsNumeric(last.args[1]) /\ IsNumeric(last.args[2])
   /\ last.args[2].n = 0)
  => result = ReturnedError("DIV0")

C2_Witness ==
  /\ FailedAt("arithmetic")
  /\ last.tok = << "/" >>
  /\ last.args[1] = FloatV(3, 2)
  /\ last.args[2] = IntV(0)
  /\ result.kind = "error"

\* C3: an arithmetic operator with an operand that is not an integer or a
\* float (a text or a boolean) yields VALUE.
C3_NonNumericOperand ==
  (/\ Called("arithmetic")
   /\ ~IsNumeric(last.args[1]) \/ ~IsNumeric(last.args[2]))
  => last.out = Raise(ExpressionEvaluationException("VALUE"))

\* C4: operands of different broad categories compare as their category
\* ordinals numeric = 0, text = 50, boolean = 100, whatever their values.
C4_CrossCategory ==
  (/\ Called("logical")
   /\ IsValue(last.args[1]) /\ IsValue(last.args[2])
   /\ Category(last.args[1]) # Category(last.args[2]))
  => last.out = Ret(BoolV(Compare(last.tok[1], Ordinal(last.args[1]),
                                  Ordinal(last.args[2]))))

C4_Witness ==
  /\ Called("logical")
  /\ last.tok = << "<" >>
  /\ last.args[1] = IntV(1024)
  /\ last.args[2] = StrV(<< "a" >>)
  /\ pc = "done"
  /\ result = Returned(BoolV(TRUE))

\* the native order of two Values of one category, text lowercased
NativeLess(a, b) ==
  IF a.t = "str"
  THEN StrLess(Lower(a.s), Lower(b.s))
  ELSE a.n * b.d < b.n * a.d

\* C5: operands of one broad category compare by native order: an integer
\* equals the float of the same value, FALSE < TRUE, and text is compared
\* after lowercasing, so texts differing only in case are equal.
C5_SameCategory ==
  (/\ Called("logical")
   /\ IsValue(last.args[1]) /\ IsValue(last.args[2])
   /\ Category(last.args[1]) = Category(last.args[2]))
  => LET a == last.args[1]
         b == last.args[2]
         lt == NativeLess(a, b)
         gt == NativeLess(b, a)
         op == last.tok[1]
     IN /\ last.out.ok
        /\ last.out.v.t = "bool"
        /\ (last.out.v.n = 1) <=>
             CASE op = "=" -> ~lt /\ ~gt
               [] op = "<>" -> lt \/ gt
               [] op = "<" -> lt
               [] op = "<=" -> ~gt
               [] op = ">" -> gt
               [] op = ">=" -> ~lt
        /\ (a.t = "str" /\ Lower(a.s) = Lower(b.s)) => ~lt /\ ~gt

C5_Witness ==
  /\ Called("logical")
  /\ last.tok = << "=" >>
  /\ last.args[1] = StrV(<< "a" >>)
  /\ last.args[2] = StrV(<< "A" >>)
  /\ last.out = Ret(BoolV(TRUE))

\* the display text of a Value: an integer-valued float without decimal
\* point, a boolean as TRUE or FALSE, anything else by its default text
Display(v) ==
  CASE v.t = "bool" -> IF v.n = 1 THEN << "T", "R", "U", "E" >>
                       ELSE << "F", "A", "L", "S", "E" >>
    [] v.t = "float" /\ v.d = 1 -> IntStr(v.n)
    [] v.t = "float" /\ v.d # 1 -> FloatStr(v.n, v.d)
    [] v.t = "int" -> IntStr(v.n)
    [] v.t = "str" -> v.s

\* C6: concatenation never fails on operand type; its result is the text
\* Display(a) followed by Display(b).
C6_Concat ==
  (/\ Called("concat")
   /\ IsValue(last.args[1]) /\ IsValue(last.args[2]))
  => /\ last.out.ok
     /\ last.out.v = StrV(Display(last.args[1]) \o Display(last.args[2]))

C6_Witness ==
  /\ Called("concat")
  /\ last.args[1] = BoolV(TRUE)
  /\ last.args[2] = FloatV(2, 1)
  /\ pc = "done"
  /\ result = Returned(StrV(<< "T", "R", "U", "E", "2" >>))

\* the number of arguments each registered function accepts
Arity == 1

\* C7: a registered function called with a number of arguments other than
\* the one it accepts yields NA.
C7_WrongArgumentCount ==
  (/\ Called("function")
   /\ Lower(last.tok) \in FunctionNames
   /\ Len(last.args) # Arity)
  => /\ last.out = Raise(ExpressionEvaluationException("NA"))
     /\ pc = "done" => result = ReturnedError("NA")

\* C8: a function name that is not a registry key after lowercasing yields
\* NAME; dispatch ignores the case of the name.
C8_Dispatch ==
  Called("function") =>
    /\ Lower(last.tok) \notin FunctionNames =>
         /\ last.out = Raise(ExpressionEvaluationException("NAME"))
         /\ pc = "done" => result = ReturnedError("NAME")
    /\ last.out = function(Lower(last.tok), last.args)
    /\ (/\ Lower(last.tok) = << "a", "b", "s" >>
        /\ Len(last.args) = 1
        /\ last.args[1].t = "int")
       => last.out = Ret(IntV(Abs(last.args[1].n)))

C8_Witness ==
  /\ Called("function")
  /\ last.tok = << "A", "B", "S" >>
  /\ last.args = << IntV(0 - 1) >>
  /\ pc = "done"
  /\ result = Returned(IntV(1))

\* C9: a registered function called with the right number of arguments, one
\* of a type its operation does not support (abs of a text), yields VALUE.
C9_WrongArgumentType ==
  (/\ Called("function")
   /\ Lower(last.tok) = << "a", "b", "s" >>
   /\ Len(last.args) = Arity
   /\ last.args[1].t = "str")
  => /\ last.out = Raise(ExpressionEvaluationException("VALUE"))
     /\ pc = "done" => result = ReturnedError("VALUE")

C9_Witness ==
  /\ FailedAt("function")
  /\ last.tok = << "a", "b", "s" >>
  /\ last.args = << StrV(<< "a" >>) >>
  /\ result = ReturnedError("VALUE")

\* the whole token is one reference: sheet qualifier, column and row leave
\* no character over
IsReference(tok) ==
  LET m == re_match(tok)
  IN m.ok /\ Len(m.sheet) + Len(m.col) + Len(m.row) = Len(tok)

\* C10: TRUE and FALSE are the booleans; any other token is a cell reference
\* only if the token matches the reference pattern, and every other token
\* yields NAME.
C10_TokenResolution ==
  Called("atomic_string") =>
    /\ last.tok = << "T", "R", "U", "E" >> => last.out = Ret(BoolV(TRUE))
    /\ last.tok = << "F", "A", "L", "S", "E" >> => last.out = Ret(BoolV(FALSE))
    /\ (/\ last.tok \notin {<< "T", "R", "U", "E" >>, << "F", "A", "L", "S", "E" >>}
        /\ ~IsReference(last.tok))
       => last.out = Raise(ExpressionEvaluationException("NAME"))

\* ------------------------------------------------ references, as spelled
\* the optional "$" before a column or a row
Marks == {<< >>, << "$" >>}

\* the column letters and row digits the claims are tried on
Columns == {<< "A" >>, << "B" >>, << "C" >>, << "Z" >>}

Rows == {<< "0" >>, << "1" >>, << "2" >>, << "9" >>}

\* sheet names, of the workbook or not
Names == {SheetS, SheetT, SheetX, SheetDotted}

\* a name made of letters, digits, "_" and " " only
IsPlainName(n) == \A i \in 1..Len(n) : IsSheetChar(n[i])

\* the qualifier of a sheet name, bare and in apostrophes
Qualifier(n) == n \o << "!" >>

Quoted(n) == << "'" >> \o n \o << "'", "!" >>

\* a reference: qualifier (or none), column and row, each with its marker
Spelled(q, m1, c, m2, r) == q \o m1 \o c \o m2 \o r

\* the zero-based (row, column) of a one-letter column c and the row r
Position(c, r) == << DigitsVal(r) - 1, Ord(c[1]) - 65 >>

\* what a reference to the position pos of a sheet reads: 0 where the sheet
\* has no cell, the text of a stored formula, else the stored value
Read(grid, pos) ==
  IF pos \notin DOMAIN grid THEN IntV(0)
  ELSE IF grid[pos].t = "expr" THEN StrV(grid[pos].s)
  ELSE grid[pos]

\* the references to a column c and a row r of a sheet with a plain name:
\* tok is the reference as written, plain the same without its markers; name
\* is the sheet named by the qualifier q, or no name without qualifier
ReferencesTo(name, q) ==
  { [name |-> name, col |-> c, row |-> r, tok |-> Spelled(q, m1, c, m2, r),
     plain |-> Spelled(q, << >>, c, << >>, r)] :
    m1 \in Marks, m2 \in Marks, c \in Columns, r \in Rows }

References ==
  ReferencesTo(<< >>, << >>)
  \cup UNION {ReferencesTo(n, Qualifier(n)) \cup ReferencesTo(n, Quoted(n)) :
              n \in {n \in Names : IsPlainName(n)}}

\* the references a token spells
ReferencesAs ==
  [tok \in {x.tok : x \in References} |-> {x \in References : x.tok = tok}]

Meant(tok) == IF tok \in DOMAIN ReferencesAs THEN ReferencesAs[tok] ELSE {}

\* the sheet a reference names: without qualifier the context cell's
Sheet(x) == IF x.name = << >> THEN cell.worksheet ELSE x.name

\* C11: a reference, unqualified or sheet-qualified, to a coordinate at which
\* the target sheet holds no cell evaluates to the integer 0, never to an
\* error.
C11_AbsentCell ==
  Called("atomic_string") =>
    \A x \in Meant(last.tok) :
      (/\ x.row # << "0" >>
       /\ Sheet(x) \in DOMAIN workbook
       /\ Position(x.col, x.row) \notin DOMAIN workbook[Sheet(x)])
      => /\ last.out = Ret(IntV(0))
         /\ (pc = "done" /\ nodes = 1) => result = Returned(IntV(0))

C11_Witness ==
  /\ Called("atomic_string")
  /\ last.tok = << "T", "!", "B", "1" >>
  /\ SheetT \in DOMAIN workbook
  /\ << 0, 1 >> \notin DOMAIN workbook[SheetT]
  /\ pc = "done"
  /\ result = Returned(IntV(0))

\* C12: an unqualified reference is looked up on the sheet of the context
\* cell; a qualified one on the workbook's sheet of exactly that name, and
\* yields REF when the workbook has no such sheet, whatever the column and row.
C12_SheetResolution ==
  Called("atomic_string") =>
    \A x \in Meant(last.tok) :
      IF Sheet(x) \in DOMAIN workbook
      THEN last.out = Ret(Read(workbook[Sheet(x)], Position(x.col, x.row)))
      ELSE /\ last.out = Raise(ExpressionEvaluationException("REF"))
           /\ pc = "done" => result = ReturnedError("REF")

C12_Witness ==
  /\ Called("atomic_string")
  /\ last.tok = << "T", "!", "A", "1" >>
  /\ cell.worksheet = SheetS
  /\ workbook[SheetS][<< 0, 0 >>] = IntV(2)
  /\ pc = "done"
  /\ result = Returned(FloatV(3, 2))

\* C13: for every sheet name N of the workbook, whatever its characters, the
\* reference 'N'!A1 resolves to cell A1 of the sheet N.
C13_QuotedSheetName ==
  Called("atomic_string") =>
    \A n \in DOMAIN workbook :
      last.tok = Spelled(Quoted(n), << >>, << "A" >>, << >>, << "1" >>)
      => last.out = Ret(Read(workbook[n], << 0, 0 >>))

\* C14: the references CR, $CR, C$R and $C$R, with the same optional sheet
\* qualifier, resolve to the same zero-based (row, column) and evaluate to
\* what CR evaluates to.
C14_AbsoluteMarkers ==
  Called("atomic_string") =>
    \A x \in Meant(last.tok) :
      x.row # << "0" >>
      => /\ last.out = atomic_string(x.plain, cell, workbook)
         /\ re_match(last.tok).ok
         /\ coordinate_from_spreadsheet(re_match(last.tok).col \o re_match(last.tok).row)
            = [ok |-> TRUE, row |-> Position(x.col, x.row)[1],
               column |-> Position(x.col, x.row)[2]]

C14_Witness ==
  /\ Called("atomic_string")
  /\ last.tok = << "T", "!", "$", "A", "$", "1" >>
  /\ cell.worksheet = SheetS
  /\ last.out = Ret(FloatV(3, 2))

\* C15: a reference to a cell that stores a formula descriptor evaluates to
\* the descriptor's .value, never to the descriptor, and every value
\* evaluate() returns is an integer, a float, a text or a boolean.
C15_DescriptorUnwrapped ==
  /\ (Called("atomic_string") /\ last.out.ok) => last.out.v.t # "expr"
  /\ Called("atomic_string") =>
       \A x \in Meant(last.tok) :
         (/\ Sheet(x) \in DOMAIN workbook
          /\ Position(x.col, x.row) \in DOMAIN workbook[Sheet(x)]
          /\ workbook[Sheet(x)][Position(x.col, x.row)].t = "expr")
         => last.out = Ret(StrV(workbook[Sheet(x)][Position(x.col, x.row)].s))
  /\ (pc = "done" /\ result.kind = "value") => IsValue(result.v)

\* C16: evaluation leaves the workbook as it is: its sheets, each sheet's
\* cells and each cell's value; a reference to an absent cell does not
\* create the cell.
C16_ReadOnly == [][workbook' = workbook]_vars

C16_Witness ==
  /\ Called("atomic_string")
  /\ last.tok = << "Z", "9" >>
  /\ << 8, 25 >> \notin DOMAIN workbook[cell.worksheet]
  /\ pc = "done"
  /\ result = Returned(IntV(0))

\* a bound on the steps a call of evaluate() has left: the tree has at most
\* as many nodes as the text has tokens
StepsOfCall ==
  CASE pc = "parse" -> Len(expression) + MaxNodes + 3
    [] pc = "transform" ->
         (IF Spelt THEN Len(expression) ELSE MaxNodes) - nodes + 2
    [] pc = "raised" -> 1
    [] pc = "done" -> 0

\* a bound on the steps left, the second call of a spelled-out formula
\* included
StepsLeft ==
  StepsOfCall
  + (IF Spelt /\ previous = NoResult THEN Len(expression) + MaxNodes + 4 ELSE 0)

\* C17: a reference to a cell that stores a formula returns the stored text
\* and evaluates nothing, also when the stored formulas refer to each other;
\* the rules called never outnumber the nodes of the formula's own parse
\* tree; the walk always has the children of its next node and one value
\* when the tree is done; and every step of evaluate() leaves fewer steps,
\* so that the evaluation of every formula ends.
C17_NoRecomputation ==
  /\ [](Called("atomic_string") =>
         \A x \in Meant(last.tok) :
           (/\ Sheet(x) \in DOMAIN workbook
            /\ Position(x.col, x.row) \in DOMAIN workbook[Sheet(x)]
            /\ workbook[Sheet(x)][Position(x.col, x.row)].t = "expr")
           => /\ last.out.ok
              /\ last.out.v.t = "str"
              /\ last.out.v.s = workbook[Sheet(x)][Position(x.col, x.row)].s)
  /\ []((Spelt /\ pc # "parse") => nodes <= Len(tree))
  /\ []((Spelt /\ pc = "transform")
        => IF nodes < Len(tree) THEN Len(stack) >= tree[nodes + 1].k
           ELSE Len(stack) = 1)
  /\ [](StepsLeft >= 0)
  /\ [][StepsLeft' < StepsLeft]_vars

C17_Witness ==
  /\ expression = << Anon("="), Token("ATOMIC_STR", << "B", "2" >>) >>
  /\ cell.worksheet = SheetS
  /\ workbook = Workbook1
  /\ workbook[SheetS][<< 1, 1 >>] = ExprV(<< "=", "C", "2" >>)
  /\ workbook[SheetS][<< 1, 2 >>] = ExprV(<< "=", "B", "2" >>)
  /\ pc = "done"
  /\ nodes = 1
  /\ result = Returned(StrV(<< "=", "C", "2" >>))

\* two Values are equal: numbers by their value, integer or float; texts and
\* booleans when they are the same
SameValue(a, b) ==
  /\ Category(a) = Category(b)
  /\ IF IsNumeric(a) THEN a.n * b.d = b.n * a.d
     ELSE IF a.t = "str" THEN a.s = b.s
     ELSE a.n = b.n

\* C18, as claimed: for every Value v, a number, a text or a boolean, the
\* formula "=" followed by to_str(v) evaluates to a Value equal to v.
C18_RoundTrip ==
  pc = "done" =>
  \A v \in DisplayValues :
    expression = Displayed(v)
    => /\ result.kind = "value"
       /\ IsValue(result.v)
       /\ SameValue(result.v, v)

\* C18, amended: for every Value v that is a number or a boolean, the
\* formula "=" followed by to_str(v) evaluates to a Value equal to v.
C18_RoundTripNumbersBooleans ==
  pc = "done" =>
  \A v \in DisplayValues :
    (v.t # "str" /\ expression = Displayed(v))
    => /\ result.kind = "value"
       /\ IsValue(result.v)
       /\ SameValue(result.v, v)

C18_Witness ==
  /\ expression = Displayed(FloatV(0 - 1, 4))
  /\ expression = << Anon("="), Token("NUMBER", << "-", "0", ".", "2", "5" >>) >>
  /\ pc = "done"
  /\ result = Returned(FloatV(0 - 1, 4))

\* C19: a formula text the grammar rejects makes evaluate() fail with the
\* parser's own failure: no rule is called, and evaluate() returns neither a
\* Value nor an EvaluationError.
C19_ParseFailure ==
  expression \in Malformed =>
    /\ pc \in {"parse", "done"}
    /\ nodes = 0
    /\ pc = "done" => /\ result = parse_error
                      /\ result.kind \notin {"value", "error"}

C19_Witness ==
  /\ expression = << Anon("="), Anon("("), First >>
  /\ pc = "done"
  /\ result.kind = "fault"
  /\ result.cls = "UnexpectedInput"

\* the tier of a binary operator, from the loosest to the tightest
Tier(op) ==
  CASE op \in LogicalOps -> 1
    [] op = "&" -> 2
    [] op \in {"+", "-"} -> 3
    [] op \in {"*", "/"} -> 4
    [] op = "^" -> 5

\* a op b by the rule of the operator
Apply(op, a, b) ==
  IF op \in LogicalOps THEN logical(a, op, b)
  ELSE IF op = "&" THEN concat(a, b)
  ELSE arithmetic(a, op, b)

\* outer applied to the outcome inner as its left or its right operand; the
\* failure of inner is the failure of the whole
OnLeft(inner, outer, c) == IF inner.ok THEN Apply(outer, inner.v, c) ELSE inner

OnRight(a, outer, inner) == IF inner.ok THEN Apply(outer, a, inner.v) ELSE inner

\* what evaluate() makes of the outcome of the root
Outcome(out) == IF out.ok THEN Returned(out.v) ELSE evaluate_except(out.exc)

\* the value of a literal token
Literal(token) == number(token.value).v

\* C20: in a o1 b o2 c the operator of the tighter tier is applied first; of
\* two operators of one tier the left one is applied first, except that of
\* two "^" the right one is.
C20_Precedence ==
  pc = "done" =>
  \A o1 \in ChainOps, o2 \in ChainOps :
    expression = Chain(o1, o2)
    => result =
         IF Tier(o2) > Tier(o1) \/ (o1 = "^" /\ o2 = "^")
         THEN Outcome(OnRight(Literal(First), o1,
                              Apply(o2, Literal(Second), Literal(Third))))
         ELSE Outcome(OnLeft(Apply(o1, Literal(First), Literal(Second)), o2,
                             Literal(Third)))

C20_Witness ==
  /\ expression = Chain("^", "^")
  /\ pc = "done"
  /\ nodes = 5
  /\ result = Returned(FloatV(2, 1))

\* an infinite float
IsInf(v) == v.t = "float" /\ v.d = 0

\* the power a^b is beyond the largest float: 2^1024 is, and so is every
\* power of a base of magnitude 2 or more to an exponent of 1024 or more
Beyond(a, b) == Abs(a.n) >= 2 * a.d /\ b.n >= DBL_MAX_EXP * b.d

\* the last rule called is a^b on two numbers
Power ==
  /\ Called("arithmetic") /\ last.tok = << "^" >>
  /\ IsNumeric(last.args[1]) /\ IsNumeric(last.args[2])

\* C21: exponentiation of two numeric operands whose result is beyond the
\* representable range yields NUM; it never returns an infinite value and
\* the overflow fault never escapes evaluate().
C21_Overflow ==
  Power =>
    /\ last.out.ok => ~IsInf(last.out.v)
    /\ Beyond(last.args[1], last.args[2]) =>
         /\ last.out = Raise(ExpressionEvaluationException("NUM"))
         /\ pc = "done" => result = ReturnedError("NUM")

\* C21 for finite operands: the overflow of math.pow is caught and NUM is
\* returned; no power of finite operands is infinite.
C21_FiniteOverflow ==
  (Power /\ ~IsInf(last.args[1]) /\ ~IsInf(last.args[2])) =>
    /\ last.out.ok => ~IsInf(last.out.v)
    /\ Beyond(last.args[1], last.args[2]) =>
         /\ last.out = Raise(ExpressionEvaluationException("NUM"))
         /\ pc = "done" => result = ReturnedError("NUM")

\* =2^1024 returned NUM
C21_FiniteWitness ==
  /\ pc = "done" /\ Power
  /\ last.args = << IntV(2), IntV(1024) >>
  /\ result = ReturnedError("NUM")

\* x op y on two integers
IntegerOp(op, x, y) ==
  CASE op = "+" -> x + y
    [] op = "-" -> x - y
    [] op = "*" -> x * y

\* the native a op b of two numbers: the integer x op y on two integers,
\* else the float of the exact result
Native(a, op, b) ==
  IF a.t = "int" /\ b.t = "int" THEN IntV(IntegerOp(op, a.n, b.n))
  ELSE FloatV(IntegerOp(op, a.n * (IF op = "*" THEN 1 ELSE b.d),
                            b.n * (IF op = "*" THEN 1 ELSE a.d)),
              a.d * b.d)

\* C22: evaluate("=a+b") of two numeric literals is the native sum; + - * on
\* two integers return the exact integer, and on an integer and a float
\* return a float.
C22_NativeArithmetic ==
  /\ (/\ Called("arithmetic") /\ last.tok[1] \in {"+", "-", "*"}
      /\ IsNumeric(last.args[1]) /\ IsNumeric(last.args[2]))
     => /\ last.out = Ret(Native(last.args[1], last.tok[1], last.args[2]))
        /\ last.out.v.t = (IF last.args[1].t = "int" /\ last.args[2].t = "int"
                           THEN "int" ELSE "float")
  /\ (pc = "done" /\ expression \in Sums)
     => result = Returned(Native(Literal(expression[2]), expression[3].value[1],
                                 Literal(expression[4])))

\* =2+1.5 returned the float 3.5
C22_Witness ==
  /\ pc = "done"
  /\ expression = << Anon("="), First, Anon("+"), Token("NUMBER", << "1", ".", "5" >>) >>
  /\ result = Returned(FloatV(7, 2))

\* C23: the atom #REF! always evaluates to REF: the rule takes no argument
\* and raises REF, and evaluate("=#REF!") calls no other rule, so that no
\* cell or sheet is looked up, and returns REF for every context cell and
\* workbook.
C23_ErrorRef ==
  /\ Called("error_ref") =>
       /\ last.args = << >>
       /\ last.out = Raise(ExpressionEvaluationException("REF"))
       /\ pc = "done" => result = ReturnedError("REF")
  /\ expression = << Anon("="), Anon("#REF!") >> =>
       /\ last.rule \in {"", "error_ref"}
       /\ \E c \in Contexts : c.cell = cell /\ c.wb = workbook
       /\ pc = "done" => result = ReturnedError("REF") /\ nodes = 1

\* =#REF! returned REF in the workbook without sheet S
C23_Witness ==
  /\ pc = "done"
  /\ expression = << Anon("="), Anon("#REF!") >>
  /\ workbook = Workbook2
  /\ result = ReturnedError("REF")

C25_EmptyCell ==
  Called("atomic_string") =>
    \A x \in Meant(last.tok) :
      (/\ x.row # << "0" >>
       /\ Sheet(x) \in DOMAIN workbook
       /\ Position(x.col, x.row) \in DOMAIN workbook[Sheet(x)]
       /\ workbook[Sheet(x)][Position(x.col, x.row)] = NoneV)
      => /\ last.out = Ret(IntV(0))
         /\ (pc = "done" /\ nodes = 1) => result = Returned(IntV(0))

\* the formula text, between "=" and its end, is the tokens ts
Reads(ts) == expression = << Anon("=") >> \o ts

\* C26: errors propagate in left-to-right post-order: the rules are called
\* in the post-order of the tree and each of them on values its children
\* returned; the first rule that fails ends the walk, no rule is called
\* after it, and what evaluate() returns is the error of that rule:
\* =foo(#REF!) yields REF, =2/0+#REF! yields DIV0, =#REF!+2/0 yields REF.
C26_ErrorPropagation ==
  /\ []((pc = "transform" /\ nodes >= 1) => last.out.ok)
  /\ []((Spelt /\ pc \in {"transform", "raised"} /\ nodes >= 1)
        => /\ last.rule = tree[nodes].rule
           /\ last.tok = tree[nodes].tok
           /\ Len(last.args) = tree[nodes].k)
  /\ [](pc = "raised" => ~last.out.ok /\ exc = last.out.exc)
  /\ [][pc = "raised" =>
          /\ pc' = "done"
          /\ nodes' = nodes
          /\ last' = last
          /\ result' = evaluate_except(last.out.exc)
          /\ last.out.exc.cls = "ExpressionEvaluationException"
             => result' = ReturnedError(last.out.exc.error)]_vars
  /\ [](pc = "done" =>
         /\ Reads(<< Token("FUNC_NAME", << "f", "o", "o" >>), Anon("("),
                     Anon("#REF!"), Anon(")") >>)
            => result = ReturnedError("REF") /\ nodes = 1
         /\ Reads(<< First, Anon("/"), Token("NUMBER", << "0" >>), Anon("+"),
                     Anon("#REF!") >>)
            => result = ReturnedError("DIV0") /\ nodes = 3
         /\ Reads(<< Anon("#REF!"), Anon("+"), First, Anon("/"),
                     Token("NUMBER", << "0" >>) >>)
            => result = ReturnedError("REF") /\ nodes = 1
         /\ Reads(<< Token("FUNC_NAME", << "f", "o", "o" >>), Anon("("),
                     First, Anon("/"), Token("NUMBER", << "0" >>), Anon(","),
                     Anon("#REF!"), Anon(")") >>)
            => result = ReturnedError("DIV0") /\ nodes = 3)

\* =2/0+#REF! returned DIV0 after three rule calls
C26_Witness ==
  /\ pc = "done"
  /\ Reads(<< First, Anon("/"), Token("NUMBER", << "0" >>), Anon("+"),
              Anon("#REF!") >>)
  /\ Called("arithmetic") /\ last.tok = << "/" >>
  /\ result = ReturnedError("DIV0")

\* the comparison a op b is true
Holds(a, op, b) == logical(a, op, b) = Ret(BoolV(TRUE))

\* an integer, a text or a boolean
IsOrdered(v) == v.t \in {"int", "str", "bool"}

\* C27: comparison is a consistent total order over integers, texts and
\* booleans: every comparison of a pair is true or false; exactly one of
\* a<b, a=b, a>b is true; <> is the negation of =, <= of >, >= of <; and
\* a<b is b>a; for pairs of one category and of two alike.
C27_TotalOrder ==
  (Called("logical") /\ IsOrdered(last.args[1]) /\ IsOrdered(last.args[2])) =>
    /\ last.out \in {Ret(BoolV(TRUE)), Ret(BoolV(FALSE))}
    /\ Cardinality({op \in {"<", "=", ">"} :
                      Holds(last.args[1], op, last.args[2])}) = 1
    /\ Holds(last.args[1], "<>", last.args[2]) = ~Holds(last.args[1], "=", last.args[2])
    /\ Holds(last.args[1], "<=", last.args[2]) = ~Holds(last.args[1], ">", last.args[2])
    /\ Holds(last.args[1], ">=", last.args[2]) = ~Holds(last.args[1], "<", last.args[2])
    /\ Holds(last.args[1], "<", last.args[2]) = Holds(last.args[2], ">", last.args[1])
    /\ Holds(last.args[1], "=", last.args[2]) = Holds(last.args[2], "=", last.args[1])

\* "A" >= "a" was compared and is true, as "A" = "a" is
C27_Witness ==
  /\ Called("logical")
  /\ last.tok = << ">=" >>
  /\ last.args = << StrV(<< "A" >>), StrV(<< "a" >>) >>
  /\ last.out = Ret(BoolV(TRUE))
  /\ Holds(last.args[1], "=", last.args[2])

\* the references to a column and a row of which one is not on any sheet:
\* row 0, a row beyond the last allowed, a column beyond the last allowed;
\* name is the sheet the qualifier names, or no name without qualifier
OffSheet ==
  { [name |-> q.name, tok |-> Spelled(q.text, m1, cr[1], m2, cr[2])] :
    q \in { [name |-> << >>, text |-> << >>],
            [name |-> SheetT, text |-> Qualifier(SheetT)],
            [name |-> SheetX, text |-> Qualifier(SheetX)] },
    m1 \in Marks, m2 \in Marks,
    cr \in {cr \in {<< "A" >>, << "I", "W" >>, << "Z", "Z", "Z" >>}
                    \X {<< "0" >>, << "1" >>, << "7", "0", "0", "0", "0" >>} :
              \/ DigitsVal(cr[2]) < 1
              \/ DigitsVal(cr[2]) > max_allowed_row + 1
              \/ ColumnNumber(cr[1]) > max_allowed_column + 1} }

\* C28: a reference that matches the pattern, on a sheet the workbook has,
\* to a coordinate that is on no sheet (row 0, a row or a column beyond the
\* last allowed) evaluates to the integer 0: neither REF nor a fault.
C28_InvalidCoordinate ==
  Called("atomic_string") =>
    \A x \in OffSheet :
      (last.tok = x.tok /\ Sheet(x) \in DOMAIN workbook)
      => /\ last.out = Ret(IntV(0))
         /\ (pc = "done" /\ nodes = 1) => result = Returned(IntV(0))

\* =ZZZ1, a column beyond the last allowed, returned 0
C28_Witness ==
  /\ pc = "done"
  /\ Called("atomic_string")
  /\ last.tok = << "Z", "Z", "Z", "1" >>
  /\ result = Returned(IntV(0))

====
